---- MODULE Spec2Model ----
(***************************************************************************)
(* Model of the depth-model conversion scripts:                            *)
(*   export_depth_model.py, convert_to_onnx.py, convert_legacy.py,         *)
(*   convert_midas_to_tflite.py, convert_onnx_to_tflite.py.                *)
(* One behaviour follows one script through up to MaxRuns successive runs  *)
(* against the same working directory.  Every external call (git, torch,   *)
(* onnx, tensorflow, the file system) is one step whose outcome is chosen  *)
(* nondeterministically among the outcomes the call can have.              *)
(***************************************************************************)
EXTENDS Integers, Sequences, FiniteSets, TLC

VARIABLES
    script,      \* which script this process runs
    runs,        \* number of runs started so far in this working directory
    pc,          \* position in the script
    fs,          \* file system: path -> "absent" | "partial" | "complete"
    fs0,         \* the file system as it was when the current run started
    out,         \* what the run printed: sequence of <<kind, detail>>
    exitCode,    \* process exit status, -1 while the process is running
    term,        \* "none" | "Done" | "Aborted"
    attempts,    \* torch.onnx.export calls: <<strategy, outcome, arguments>>
    trace,       \* stages executed by this run, in order: <<stage, "ok"|"fail">>
    model,       \* in-memory model handle: "none" | "train" | "eval"
    legacy_env,  \* os.environ["PYTORCH_ONNX_USE_LEGACY_EXPORTER"] is set
    file_mb,     \* size in MB of the file the exporter wrote
    input_size,  \* the configured spatial size (INPUT_SIZE) of this script
    history,     \* one record per earlier run in this directory
    peer,        \* local state of a second, concurrently running process
    owner,       \* process whose complete artifact TFLITE_PATH holds, 0: none
    last_write   \* process that wrote to TFLITE_PATH last, 0: none

vars == <<script, runs, pc, fs, fs0, out, exitCode, term, attempts, trace,
          model, legacy_env, file_mb, input_size, history, peer, owner,
          last_write>>

\* Variables no stage of a run assigns.
rest == <<input_size, history, peer>>

\* Bookkeeping of the bytes at TFLITE_PATH, assigned by open and write only.
art == <<owner, last_write>>

\* ------------------------------------------------------------------ bounds
MaxRuns == 2

\* Sizes (MB) the exported graph may have: below, at and above the threshold.
FileSizes == {5, 10, 25}

\* --------------------------------------------------------- configuration
Scripts == {"export_depth_model", "convert_to_onnx", "convert_legacy",
            "convert_midas_to_tflite", "convert_onnx_to_tflite"}

DepthScripts == {"export_depth_model", "convert_to_onnx", "convert_legacy"}

TfliteScripts == {"convert_midas_to_tflite", "convert_onnx_to_tflite"}

PT_PATH == "assets/models/dpt_swin2_tiny_256.pt"

ONNX_PATH == "assets/models/dpt_swin2_tiny_256.onnx"

TFLITE_PATH == "assets/models/midas_small.tflite"

saved_model_path == "temp_saved_model"

DepthRepo == "Depth-Anything-V2"

MidasRepo == "MiDaS"

pth_file == "depth_anything_v2_vits.pth"

MinSizeMB == 10

\* The sizes found in the scripts: INPUT_SIZE = 252 (export_depth_model,
\* convert_to_onnx), 518 (convert_legacy), and the 256 of the MiDaS dummy input.
InputSizes == {252, 518, 256}

\* f'depth_anything_v2_{INPUT_SIZE}x{INPUT_SIZE}_opset{OPSET_VERSION}.onnx'
\* of export_depth_model, for the sizes of InputSizes.
SizedOutputPath(size) ==
    CASE size = 252 -> "depth_anything_v2_252x252_opset17.onnx"
      [] size = 518 -> "depth_anything_v2_518x518_opset17.onnx"
      [] size = 256 -> "depth_anything_v2_256x256_opset17.onnx"
      [] OTHER      -> "depth_anything_v2_NxN_opset17.onnx"

\* output_path of the three Depth Anything exporters, ONNX_PATH otherwise.
output_path(s) ==
    CASE s = "export_depth_model" -> SizedOutputPath(input_size)
      [] s = "convert_to_onnx"    -> "depth_anything_v2_opset17.onnx"
      [] s = "convert_legacy"     -> "depth_anything_v2_opset11.onnx"
      [] OTHER                    -> ONNX_PATH

\* The directory holding the architecture source.
RepoDir(s) == IF s \in DepthScripts THEN DepthRepo ELSE MidasRepo

\* The input whose existence the script tests before working.
RequiredInput(s) ==
    CASE s \in DepthScripts            -> pth_file
      [] s = "convert_midas_to_tflite" -> PT_PATH
      [] OTHER                         -> ONNX_PATH

Paths == {PT_PATH, ONNX_PATH, TFLITE_PATH, saved_model_path, DepthRepo,
          MidasRepo, pth_file,
          "depth_anything_v2_opset17.onnx", "depth_anything_v2_opset11.onnx"}
         \cup {SizedOutputPath(size) : size \in InputSizes}

\* Paths a script reads before it writes anything: these may or may not exist
\* when the first run starts.
InputPaths(s) ==
    IF s = "convert_onnx_to_tflite" THEN {ONNX_PATH}
    ELSE {RepoDir(s), RequiredInput(s)}

\* ------------------------------------------------- control-flow skeleton
StartPc(s) ==
    CASE s \in DepthScripts -> "clone"
      [] OTHER              -> "check"

\* Where the script goes after a stage that completed normally.
NextPc(s, stage) ==
    CASE stage = "clone"   -> "import"
      [] stage = "import"  -> IF s \in DepthScripts THEN "check" ELSE "load"
      [] stage = "check"   -> CASE s \in DepthScripts            -> "load"
                                [] s = "convert_midas_to_tflite" -> "clone"
                                [] OTHER                         -> "getsize"
      [] stage = "load"    -> "export"
      [] stage = "export"  -> "getsize"
      [] stage = "export_fallback" -> "getsize"
      [] stage = "getsize" -> CASE s = "export_depth_model" -> "validate"
                                [] s \in TfliteScripts      -> "libs"
                                [] OTHER                    -> "finish"
      [] stage = "validate"     -> "smoke"
      [] stage = "smoke"        -> "finish"
      [] stage = "libs"         -> "onnx_load"
      [] stage = "onnx_load"    -> "prepare"
      [] stage = "prepare"      -> "export_graph"
      [] stage = "export_graph" -> "compile"
      [] stage = "compile"      -> "open"
      [] stage = "open"         -> "write"
      [] stage = "write"        -> "rmtree"
      [] stage = "rmtree"       -> IF s = "convert_midas_to_tflite"
                                   THEN "remove" ELSE "finish"
      [] stage = "remove"       -> "finish"
      [] OTHER                  -> "exited"

\* Variant: every script swallows the exception the way main() of
\* convert_midas_to_tflite does.
ExceptionSwallowed(s) == 0

\* Exit status of the process when an exception escapes the stage functions.
\* export_depth_model/convert_to_onnx/convert_legacy: except -> sys.exit(1);
\* convert_midas_to_tflite: main() catches, prints and returns normally;
\* convert_onnx_to_tflite: nothing catches, the interpreter exits with 1.
ExitOnException(s) == IF s = "convert_midas_to_tflite" THEN 0 ELSE 1

\* Exit status when the required input is missing: the Depth Anything
\* scripts return False (-> sys.exit(1)); the two tflite scripts `return`.
ExitOnMissingInput(s) == IF s \in DepthScripts THEN 1 ELSE 0

\* How an escaping exception is shown.
ExceptionReport(s, cause) ==
    IF s = "convert_onnx_to_tflite" THEN <<"traceback", cause>>
    ELSE <<"error", cause>>

\* The stage is over and the script moves on; res is "ok", or "fail" when the
\* stage's call failed and the script carries on regardless.
Continue(stage, res, msgs) ==
    /\ pc' = NextPc(script, stage)
    /\ trace' = Append(trace, <<stage, res>>)
    /\ out' = out \o msgs
    /\ UNCHANGED <<exitCode, term>>

\* The process ends during `stage` (res as above).
Exit(stage, res, code, t, msgs) ==
    /\ pc' = "exited"
    /\ trace' = Append(trace, <<stage, res>>)
    /\ out' = out \o msgs
    /\ exitCode' = code
    /\ term' = t

\* `stage` raised an exception that no stage function handles.
Raise(stage, cause) ==
    Exit(stage, "fail", ExitOnException(script), "Aborted",
         <<ExceptionReport(script, cause)>>)

\* INPUT_SIZE is a constant the operator edits in the Depth Anything scripts;
\* the two MiDaS scripts work on the fixed 256 x 256 model.
ConfiguredSizes(s) == IF s \in DepthScripts THEN InputSizes ELSE {256}

\* No second process: the value of peer in a sequential run.
NoPeer == [id |-> 2, pc |-> "off"]

\* A second process that has not started yet.
IdlePeer == [id |-> 2, pc |-> "idle"]

\* Identity of the process whose local state is in pc, trace, out, ...
Me == 3 - peer.id

\* ------------------------------------------------------------------ Init
Init ==
    /\ script \in Scripts
    /\ runs = 1
    /\ pc = StartPc(script)
    /\ \E present \in SUBSET InputPaths(script) :
          fs = [p \in Paths |-> IF p \in present THEN "complete" ELSE "absent"]
    /\ fs0 = fs
    /\ out = <<>>
    /\ exitCode = -1
    /\ term = "none"
    /\ attempts = <<>>
    /\ trace = <<>>
    /\ model = "none"
    /\ legacy_env = FALSE
    /\ file_mb = 0
    /\ input_size \in ConfiguredSizes(script)
    /\ history = <<>>
    /\ peer = NoPeer
    /\ owner = 0
    /\ last_write = 0

\* ------------------------------------------------- architecture fetching
\* subprocess.run(..., check=True) raises when git fails; the os.system call
\* of convert_midas_to_tflite drops git's exit status.
CloneIsChecked(s) == s \in DepthScripts

\* clone_depth_anything() / the clone step of load_model_from_checkpoint().
Clone ==
    /\ pc = "clone"
    /\ UNCHANGED <<script, runs, fs0, attempts, model, legacy_env, file_mb>>
    /\ UNCHANGED <<rest, art>>
    /\ \/ /\ fs[RepoDir(script)] # "absent"
          /\ fs' = fs
          /\ Continue("clone", "ok", <<>>)
       \/ /\ fs[RepoDir(script)] = "absent"
          /\ \E ok \in BOOLEAN :
               IF ok
               THEN /\ fs' = [fs EXCEPT ![RepoDir(script)] = "complete"]
                    /\ Continue("clone", "ok", <<<<"cloning", RepoDir(script)>>>>)
               ELSE /\ fs' = fs
                    /\ IF CloneIsChecked(script)
                       THEN Exit("clone", "fail", ExitOnException(script), "Aborted",
                                 <<<<"cloning", RepoDir(script)>>,
                                   ExceptionReport(script, "CalledProcessError")>>)
                       ELSE Continue("clone", "fail", <<<<"cloning", RepoDir(script)>>>>)

\* sys.path.insert + `from ... import ...` of the architecture class.
Import ==
    /\ pc = "import"
    /\ UNCHANGED <<script, runs, fs, fs0, attempts, model, legacy_env, file_mb>>
    /\ UNCHANGED <<rest, art>>
    /\ \/ /\ fs[RepoDir(script)] = "complete"
          /\ Continue("import", "ok", <<>>)
       \/ Raise("import", "ImportError")

\* `if not os.path.exists(<required input>)`.
CheckInput ==
    /\ pc = "check"
    /\ UNCHANGED <<script, runs, fs, fs0, attempts, model, legacy_env, file_mb>>
    /\ UNCHANGED <<rest, art>>
    /\ IF fs[RequiredInput(script)] = "absent"
       THEN Exit("check", "fail", ExitOnMissingInput(script), "Aborted",
                 <<<<"not_found", RequiredInput(script)>>>>)
       ELSE Continue("check", "ok", <<>>)

\* ---------------------------------------------------------------- loading
\* Variant: model.eval() is left out, the model stays in training mode.
LoadWithoutEval ==
    /\ pc = "load"
    /\ UNCHANGED <<script, runs, fs, fs0, attempts, legacy_env, file_mb>>
    /\ UNCHANGED <<rest, art>>
    /\ \/ /\ model' = "train"
          /\ Continue("load", "ok", <<>>)
       \/ /\ model' = model
          /\ Raise("load", "LoadError")

\* Build the architecture, load the checkpoint into it, model.eval().
Load ==
    /\ pc = "load"
    /\ UNCHANGED <<script, runs, fs, fs0, attempts, legacy_env, file_mb>>
    /\ UNCHANGED <<rest, art>>
    /\ \/ /\ model' = "eval"
          /\ Continue("load", "ok", <<>>)
       \/ /\ model' = model
          /\ Raise("load", "LoadError")

\* -------------------------------------------------------------- exporting
\* Strategy of the first torch.onnx.export call: only export_depth_model
\* passes dynamo=False.
FirstStrategy(s) == IF s = "export_depth_model" THEN "dynamo_false" ELSE "default"

\* OPSET_VERSION of the script (opset_version=14 in convert_midas_to_tflite).
OPSET_VERSION(s) ==
    CASE s \in {"export_depth_model", "convert_to_onnx"} -> 17
      [] s = "convert_legacy"                              -> 11
      [] OTHER                                             -> 14

\* The arguments of the first torch.onnx.export call: the model handle m, a
\* dummy input of shape (1, 3, size, size), the output path, the opset, the
\* tensor names and no dynamic axes.
ExportArguments(s, m, size) ==
    [model         |-> m,
     shape         |-> <<1, 3, size, size>>,
     path          |-> output_path(s),
     opset         |-> OPSET_VERSION(s),
     input_names   |-> <<"input">>,
     output_names  |-> <<IF s \in DepthScripts THEN "depth" ELSE "output">>,
     dynamic_axes  |-> "None"]

\* Variant: the retry leaves opset_version out and gets the exporter's default.
FallbackArgumentsDefaultOpset(s, m, size) ==
    [model         |-> m,
     shape         |-> <<1, 3, size, size>>,
     path          |-> output_path(s),
     opset         |-> 18,
     input_names   |-> <<"input">>,
     output_names  |-> <<"depth">>,
     dynamic_axes  |-> "None"]

\* The arguments of the second torch.onnx.export call of export_model.
FallbackArguments(s, m, size) ==
    [model         |-> m,
     shape         |-> <<1, 3, size, size>>,
     path          |-> output_path(s),
     opset         |-> OPSET_VERSION(s),
     input_names   |-> <<"input">>,
     output_names  |-> <<"depth">>,
     dynamic_axes  |-> "None"]

\* Ways the first torch.onnx.export call can end.  A TypeError naming the
\* dynamo keyword can only arise where the keyword is passed.
ExportOutcomes(s) ==
    IF s = "export_depth_model"
    THEN {"ok", "TypeError_dynamo", "TypeError_other", "RuntimeError"}
    ELSE {"ok", "TypeError_other", "RuntimeError"}

\* Variant: the handler falls back on every TypeError.
FallbackOnAnyTypeError(s, outcome) ==
    s = "export_depth_model" /\ outcome \in {"TypeError_dynamo", "TypeError_other"}

\* `except TypeError as e: if "dynamo" in str(e)`.
ShouldFallback(s, outcome) ==
    s = "export_depth_model" /\ outcome = "TypeError_dynamo"

\* What a failed export call may leave at the output path: an argument
\* error is raised before anything is written, a later failure may leave a
\* truncated file.
LeftByFailedExport(outcome, before) ==
    IF outcome = "RuntimeError" THEN {before, "partial"} ELSE {before}

\* The first (in four scripts: the only) torch.onnx.export call.
Export ==
    /\ pc = "export"
    /\ UNCHANGED <<script, runs, fs0, model, legacy_env>>
    /\ UNCHANGED <<rest, art>>
    /\ \E o \in ExportOutcomes(script) :
         /\ attempts' = Append(attempts, <<FirstStrategy(script), o,
                                  ExportArguments(script, model, input_size)>>)
         /\ IF o = "ok"
            THEN /\ fs' = [fs EXCEPT ![output_path(script)] = "complete"]
                 /\ file_mb' \in FileSizes
                 /\ Continue("export", "ok", <<>>)
            ELSE /\ file_mb' = file_mb
                 /\ IF ShouldFallback(script, o)
                    THEN /\ fs' = fs
                         /\ pc' = "export_fallback"
                         /\ trace' = Append(trace, <<"export", "fail">>)
                         /\ UNCHANGED <<out, exitCode, term>>
                    ELSE /\ \E left \in LeftByFailedExport(o, fs[output_path(script)]) :
                              fs' = [fs EXCEPT ![output_path(script)] = left]
                         /\ Raise("export", o)

\* The body of the TypeError handler: print, set the environment switch,
\* call torch.onnx.export again without the dynamo keyword.
ExportFallback ==
    /\ pc = "export_fallback"
    /\ UNCHANGED <<script, runs, fs0, model>>
    /\ UNCHANGED <<rest, art>>
    /\ legacy_env' = TRUE
    /\ \E o \in {"ok", "TypeError_other", "RuntimeError"} :
         /\ attempts' = Append(attempts, <<"env_legacy", o,
                                  FallbackArguments(script, model, input_size)>>)
         /\ IF o = "ok"
            THEN /\ fs' = [fs EXCEPT ![output_path(script)] = "complete"]
                 /\ file_mb' \in FileSizes
                 /\ Continue("export_fallback", "ok", <<<<"fallback", "dynamo">>>>)
            ELSE /\ file_mb' = file_mb
                 /\ \E left \in LeftByFailedExport(o, fs[output_path(script)]) :
                      fs' = [fs EXCEPT ![output_path(script)] = left]
                 /\ Exit("export_fallback", "fail", ExitOnException(script), "Aborted",
                         <<<<"fallback", "dynamo">>, ExceptionReport(script, o)>>)

\* `if file_size < 10`.
TooSmall(mb) == mb < MinSizeMB

\* Scripts that compare the size of the exported file with the threshold.
ChecksSize(s) == s \in {"export_depth_model", "convert_legacy"}

\* export_depth_model returns False on an undersized file; convert_legacy
\* only prints the warning.
SizeCheckReturnsFalse(s) == s = "export_depth_model"

\* os.path.getsize of the graph file and what follows it.
GetSize ==
    /\ pc = "getsize"
    /\ UNCHANGED <<script, runs, fs, fs0, attempts, model, legacy_env, file_mb>>
    /\ UNCHANGED <<rest, art>>
    /\ IF fs[output_path(script)] = "absent"
       THEN Raise("getsize", "FileNotFoundError")
       ELSE IF ChecksSize(script) /\ TooSmall(file_mb)
            THEN IF SizeCheckReturnsFalse(script)
                 THEN Exit("getsize", "fail", 1, "Aborted", <<<<"warning", "size">>>>)
                 ELSE Continue("getsize", "ok", <<<<"warning", "size">>>>)
            ELSE Continue("getsize", "ok", <<>>)

\* ------------------------------------------- validation and smoke test
\* A call that touches no file: it returns or it raises.
CallStage(stage, cause) ==
    /\ pc = stage
    /\ UNCHANGED <<script, runs, fs, fs0, attempts, model, legacy_env, file_mb>>
    /\ UNCHANGED <<rest, art>>
    /\ \/ Continue(stage, "ok", <<>>)
       \/ Raise(stage, cause)

\* A call that reads `path`: it raises FileNotFoundError when the path is not
\* there, and otherwise returns or raises like any other call.
CallStageOn(stage, cause, path) ==
    /\ pc = stage
    /\ UNCHANGED <<script, runs, fs, fs0, attempts, model, legacy_env, file_mb>>
    /\ UNCHANGED <<rest, art>>
    /\ IF fs[path] = "absent"
       THEN Raise(stage, "FileNotFoundError")
       ELSE \/ Continue(stage, "ok", <<>>)
            \/ Raise(stage, cause)

\* Variant: the validator's exception is not caught.
ValidateRaises == CallStage("validate", "ValidationError")

\* try: onnx.load / onnx.checker.check_model  except Exception: print.
Validate ==
    /\ pc = "validate"
    /\ UNCHANGED <<script, runs, fs, fs0, attempts, model, legacy_env, file_mb>>
    /\ UNCHANGED <<rest, art>>
    /\ \/ Continue("validate", "ok", <<>>)
       \/ Continue("validate", "fail", <<<<"warning", "validate">>>>)

\* Variant: the smoke test's exception is not caught.
SmokeRaises == CallStage("smoke", "InferenceError")

\* Variant: a failed smoke test is tried again.
SmokeRetries ==
    /\ pc = "smoke"
    /\ UNCHANGED <<script, runs, fs, fs0, attempts, model, legacy_env, file_mb>>
    /\ UNCHANGED <<rest, art>>
    /\ \/ Continue("smoke", "ok", <<>>)
       \/ /\ pc' = "smoke"
          /\ trace' = Append(trace, <<"smoke", "fail">>)
          /\ out' = Append(out, <<"warning", "smoke">>)
          /\ UNCHANGED <<exitCode, term>>

\* try: ort.InferenceSession / session.run  except Exception: print.
Smoke ==
    /\ pc = "smoke"
    /\ UNCHANGED <<script, runs, fs, fs0, attempts, model, legacy_env, file_mb>>
    /\ UNCHANGED <<rest, art>>
    /\ \/ Continue("smoke", "ok", <<>>)
       \/ Continue("smoke", "fail", <<<<"warning", "smoke">>>>)

\* ------------------------------------------------------------ transcoding
\* import onnx, tensorflow, onnx_tf.backend.prepare
Libs == CallStage("libs", "ImportError")

\* onnx.load(ONNX_PATH)
OnnxLoad == CallStageOn("onnx_load", "OnnxLoadError", ONNX_PATH)

\* Variant: the cleanup runs although the lowering failed.
PrepareThenCleanup ==
    /\ pc = "prepare"
    /\ UNCHANGED <<script, runs, fs0, attempts, model, legacy_env, file_mb>>
    /\ UNCHANGED <<rest, art>>
    /\ \/ /\ fs' = fs
          /\ Continue("prepare", "ok", <<>>)
       \/ /\ fs' = [fs EXCEPT ![ONNX_PATH] = "absent"]
          /\ Raise("prepare", "LoweringFailed")

\* prepare(onnx_model): stage 1, ONNX graph -> TensorFlow representation.
Prepare == CallStage("prepare", "LoweringFailed")

\* Variant: the call may block forever, neither returning nor raising.
ExportGraphHangs ==
    /\ pc = "export_graph"
    /\ UNCHANGED <<script, runs, fs0, attempts, model, legacy_env, file_mb>>
    /\ UNCHANGED <<rest, art>>
    /\ \/ /\ fs' = [fs EXCEPT ![saved_model_path] = "complete"]
          /\ Continue("export_graph", "ok", <<>>)
       \/ /\ fs' = [fs EXCEPT ![saved_model_path] = "partial"]
          /\ pc' = "hung"
          /\ UNCHANGED <<out, exitCode, term, trace>>

\* tf_rep.export_graph("temp_saved_model"): stage 1, writes the directory.
ExportGraph ==
    /\ pc = "export_graph"
    /\ UNCHANGED <<script, runs, fs0, attempts, model, legacy_env, file_mb>>
    /\ UNCHANGED <<rest, art>>
    /\ \/ /\ fs' = [fs EXCEPT ![saved_model_path] = "complete"]
          /\ Continue("export_graph", "ok", <<>>)
       \/ /\ \E left \in {fs[saved_model_path], "partial"} :
               fs' = [fs EXCEPT ![saved_model_path] = left]
          /\ Raise("export_graph", "LoweringFailed")

\* Variant: the ONNX file is removed as soon as the model is compiled.
CompileThenRemove ==
    /\ pc = "compile"
    /\ UNCHANGED <<script, runs, fs0, attempts, model, legacy_env, file_mb>>
    /\ UNCHANGED <<rest, art>>
    /\ IF fs[saved_model_path] = "absent"
       THEN /\ fs' = fs
            /\ Raise("compile", "FileNotFoundError")
       ELSE \/ /\ fs' = [fs EXCEPT ![ONNX_PATH] = "absent"]
               /\ Continue("compile", "ok", <<>>)
            \/ /\ fs' = fs
               /\ Raise("compile", "CompilationFailed")

\* TFLiteConverter.from_saved_model(...) ... converter.convert(): stage 2.
Compile == CallStageOn("compile", "CompilationFailed", saved_model_path)

\* open(TFLITE_PATH, 'wb'): creates or truncates the file.
Open ==
    /\ pc = "open"
    /\ UNCHANGED <<script, runs, fs0, attempts, model, legacy_env, file_mb>>
    /\ UNCHANGED rest
    /\ \/ /\ fs' = [fs EXCEPT ![TFLITE_PATH] = "partial"]
          /\ owner' = 0
          /\ last_write' = last_write
          /\ Continue("open", "ok", <<>>)
       \/ /\ fs' = fs
          /\ UNCHANGED art
          /\ Raise("open", "OSError")

\* What TFLITE_PATH can hold after this process wrote all its bytes from
\* offset 0 of the descriptor it opened.  The file was truncated by open, so
\* it is complete now only if another process wrote to it in between: then
\* the new bytes replace the old ones, or, when they are fewer, leave the
\* tail of the other artifact behind them.
AfterWrite(before) ==
    IF before = "complete" THEN {"complete", "partial"} ELSE {"complete"}

\* f.write(tflite_model) and the close at the end of the with block.
Write ==
    /\ pc = "write"
    /\ UNCHANGED <<script, runs, fs0, attempts, model, legacy_env, file_mb>>
    /\ UNCHANGED rest
    /\ \/ /\ \E now \in AfterWrite(fs[TFLITE_PATH]) :
               /\ fs' = [fs EXCEPT ![TFLITE_PATH] = now]
               /\ owner' = IF now = "complete" THEN Me ELSE 0
          /\ last_write' = Me
          /\ Continue("write", "ok", <<>>)
       \/ /\ \E now \in {fs[TFLITE_PATH], "partial"} :
               /\ fs' = [fs EXCEPT ![TFLITE_PATH] = now]
               /\ owner' = IF now = "complete" THEN owner ELSE 0
          /\ last_write' = last_write
          /\ Raise("write", "OSError")

\* Variant: rmtree without ignore_errors, a failure to delete raises.
RmtreeRaises ==
    /\ pc = "rmtree"
    /\ UNCHANGED <<script, runs, fs0, attempts, model, legacy_env, file_mb>>
    /\ UNCHANGED <<rest, art>>
    /\ \/ /\ fs' = [fs EXCEPT ![saved_model_path] = "absent"]
          /\ Continue("rmtree", "ok", <<>>)
       \/ /\ fs' = fs
          /\ Raise("rmtree", "OSError")

\* shutil.rmtree("temp_saved_model", ignore_errors=True): a failure to
\* delete is swallowed and leaves the directory.
Rmtree ==
    /\ pc = "rmtree"
    /\ UNCHANGED <<script, runs, fs0, attempts, model, legacy_env, file_mb>>
    /\ UNCHANGED <<rest, art>>
    /\ \/ /\ fs' = [fs EXCEPT ![saved_model_path] = "absent"]
          /\ Continue("rmtree", "ok", <<>>)
       \/ /\ fs' = fs
          /\ Continue("rmtree", "fail", <<>>)

\* Variant: the cleanup forgets the ONNX file.
RemoveSkipped ==
    /\ pc = "remove"
    /\ UNCHANGED <<script, runs, fs0, attempts, model, legacy_env, file_mb>>
    /\ UNCHANGED <<rest, art>>
    /\ fs' = fs
    /\ Continue("remove", "ok", <<>>)

\* Variant: the cleanup removes the ONNX file only if it is still there.
RemoveIfExists ==
    /\ pc = "remove"
    /\ UNCHANGED <<script, runs, fs0, attempts, model, legacy_env, file_mb>>
    /\ UNCHANGED <<rest, art>>
    /\ \/ /\ fs' = [fs EXCEPT ![ONNX_PATH] = "absent"]
          /\ Continue("remove", "ok", <<>>)
       \/ /\ fs[ONNX_PATH] # "absent"
          /\ fs' = fs
          /\ Raise("remove", "OSError")

\* os.remove(ONNX_PATH), convert_midas_to_tflite only.
Remove ==
    /\ pc = "remove"
    /\ UNCHANGED <<script, runs, fs0, attempts, model, legacy_env, file_mb>>
    /\ UNCHANGED <<rest, art>>
    /\ IF fs[ONNX_PATH] = "absent"
       THEN /\ fs' = fs
            /\ Raise("remove", "FileNotFoundError")
       ELSE \/ /\ fs' = [fs EXCEPT ![ONNX_PATH] = "absent"]
               /\ Continue("remove", "ok", <<>>)
            \/ /\ fs' = fs
               /\ Raise("remove", "OSError")

\* The last statements of the script: the success banner, return (True).
Finish ==
    /\ pc = "finish"
    /\ UNCHANGED <<script, runs, fs, fs0, attempts, model, legacy_env, file_mb>>
    /\ UNCHANGED <<rest, art>>
    /\ Exit("finish", "ok", 0, "Done", <<<<"done", script>>>>)

\* Every call of the run succeeded.
AllOk(tr) == \A i \in 1..Len(tr) : tr[i][2] = "ok"

\* The operator starts the same script again in the same directory.
Restart ==
    /\ pc = "exited"
    /\ runs < MaxRuns
    /\ runs' = runs + 1
    /\ pc' = StartPc(script)
    /\ fs0' = fs
    /\ out' = <<>>
    /\ exitCode' = -1
    /\ term' = "none"
    /\ attempts' = <<>>
    /\ trace' = <<>>
    /\ model' = "none"
    /\ legacy_env' = FALSE
    /\ file_mb' = 0
    /\ history' = Append(history, [term |-> term, ok |-> AllOk(trace), fs |-> fs])
    /\ UNCHANGED <<script, fs, input_size, peer, art>>

Next ==
    \/ Clone
    \/ Import
    \/ CheckInput
    \/ Load
    \/ Export
    \/ ExportFallback
    \/ GetSize
    \/ Validate
    \/ Smoke
    \/ Libs
    \/ OnnxLoad
    \/ Prepare
    \/ ExportGraph
    \/ Compile
    \/ Open
    \/ Write
    \/ Rmtree
    \/ Remove
    \/ Finish
    \/ Restart

Spec == Init /\ [][Next]_vars

\* A step of the running script: the interpreter executes the next statement,
\* and every external call eventually returns or raises.
RunStep == pc # "exited" /\ Next

\* Runs in which the script is never suspended forever; whether the operator
\* starts the script again is left open.
SpecLive == Init /\ [][Next]_vars /\ WF_vars(RunStep)

\* ------------------------------------------------- two concurrent runs
\* The local state of the running process, as kept while the other one runs.
Locals ==
    [id |-> Me, pc |-> pc, fs0 |-> fs0, out |-> out, exitCode |-> exitCode,
     term |-> term, attempts |-> attempts, trace |-> trace, model |-> model,
     legacy_env |-> legacy_env, file_mb |-> file_mb]

\* The local state a process starts with: the file system it finds is fs.
FreshLocals(id) ==
    [id |-> id, pc |-> StartPc(script), fs0 |-> fs, out |-> <<>>, exitCode |-> -1,
     term |-> "none", attempts |-> <<>>, trace |-> <<>>, model |-> "none",
     legacy_env |-> FALSE, file_mb |-> 0]

\* The scheduler takes the processor from one process and gives it to the
\* other: the two processes share nothing but the file system.
Switch ==
    /\ peer.pc \notin {"off", "exited"}
    /\ LET to == IF peer.pc = "idle" THEN FreshLocals(peer.id) ELSE peer
       IN  /\ pc' = to.pc
           /\ fs0' = to.fs0
           /\ out' = to.out
           /\ exitCode' = to.exitCode
           /\ term' = to.term
           /\ attempts' = to.attempts
           /\ trace' = to.trace
           /\ model' = to.model
           /\ legacy_env' = to.legacy_env
           /\ file_mb' = to.file_mb
    /\ peer' = Locals
    /\ UNCHANGED <<script, runs, fs, input_size, history, art>>

\* Two runs of convert_midas_to_tflite.py started in the same directory.
InitConc ==
    /\ script = "convert_midas_to_tflite"
    /\ runs = 1
    /\ pc = StartPc(script)
    /\ \E present \in SUBSET InputPaths(script) :
          fs = [p \in Paths |-> IF p \in present THEN "complete" ELSE "absent"]
    /\ fs0 = fs
    /\ out = <<>>
    /\ exitCode = -1
    /\ term = "none"
    /\ attempts = <<>>
    /\ trace = <<>>
    /\ model = "none"
    /\ legacy_env = FALSE
    /\ file_mb = 0
    /\ input_size \in ConfiguredSizes(script)
    /\ history = <<>>
    /\ peer = IdlePeer
    /\ owner = 0
    /\ last_write = 0

NextConc ==
    \/ CheckInput
    \/ Clone
    \/ Import
    \/ Load
    \/ Export
    \/ GetSize
    \/ Libs
    \/ OnnxLoad
    \/ Prepare
    \/ ExportGraph
    \/ Compile
    \/ Open
    \/ Write
    \/ Rmtree
    \/ Remove
    \/ Finish
    \/ Switch

SpecConc == InitConc /\ [][NextConc]_vars

TypeOK ==
    /\ script \in Scripts
    /\ runs \in 1..MaxRuns
    /\ fs \in [Paths -> {"absent", "partial", "complete"}]
    /\ exitCode \in {-1, 0, 1}
    /\ term \in {"none", "Done", "Aborted"}
    /\ (pc = "exited") = (exitCode # -1)
    /\ (pc = "exited") = (term # "none")

\* ================================================================ claims
Range(seq) == {seq[i] : i \in 1..Len(seq)}

Ended == pc = "exited"

\* Result of the last torch.onnx.export call of this run.
LastAttempt == attempts[Len(attempts)]

\* C1: a run exits with status 0 if and only if it reached Done; every run
\* that ends on a missing input, a fatal stage failure or an exception exits
\* with a non-zero status, in all five scripts.
C1_ExitZeroIffDone ==
    Ended => ((exitCode = 0) <=> (term = "Done"))

\* C2: when the weights file is absent at the start of a run, the run names
\* the missing file, makes no export attempt, exits non-zero and leaves no
\* file or directory that was not there at the start.
C2_MissingWeightsLeavesNothing ==
    (/\ Ended
     /\ script \in DepthScripts \cup {"convert_midas_to_tflite"}
     /\ fs0[RequiredInput(script)] = "absent")
    => /\ <<"not_found", RequiredInput(script)>> \in Range(out)
       /\ attempts = <<>>
       /\ exitCode # 0
       /\ \A p \in Paths : fs0[p] = "absent" => fs[p] = "absent"

\* C3: export_model calls the exporter at most twice per run; the first call
\* uses dynamo=False; a second call, with the environment switch set, is made
\* exactly when the first raised a TypeError naming dynamo; the second call
\* is never repeated.
C3_AtMostOneFallback ==
    script = "export_depth_model" =>
       /\ Len(attempts) <= 2
       /\ Len(attempts) >= 1 => attempts[1][1] = "dynamo_false"
       /\ Len(attempts) = 2 => /\ attempts[1][2] = "TypeError_dynamo"
                               /\ attempts[2][1] = "env_legacy"
                               /\ legacy_env
       /\ (Len(attempts) = 1 /\ attempts[1][2] = "TypeError_dynamo")
             => pc = "export_fallback"
       /\ pc = "export_fallback"
             => Len(attempts) = 1 /\ attempts[1][2] = "TypeError_dynamo"

C3_Witness ==
    /\ script = "export_depth_model"
    /\ Ended
    /\ Len(attempts) = 2
    /\ attempts[2][2] = "ok"

\* C4: in export_model, when the first export call fails with anything but a
\* TypeError naming dynamo, or the fallback call fails, no further export
\* call and no later stage runs: the run is Aborted, exits non-zero and
\* prints the cause.
C4_ExportFailureIsFatal ==
    (/\ script = "export_depth_model"
     /\ attempts # <<>>
     /\ LastAttempt[2] # "ok"
     /\ ~ (Len(attempts) = 1 /\ LastAttempt[2] = "TypeError_dynamo"))
    => /\ Ended
       /\ term = "Aborted"
       /\ exitCode # 0
       /\ <<"error", LastAttempt[2]>> \in Range(out)
       /\ trace[Len(trace)][1] \in {"export", "export_fallback"}
       /\ trace[Len(trace)][2] = "fail"

C4_Witness ==
    /\ script = "export_depth_model"
    /\ Ended
    /\ Len(attempts) = 2
    /\ attempts[2][2] = "RuntimeError"

\* C5: an exported graph below the 10 MB threshold only produces a warning:
\* the run goes on through validation and smoke test, reaches Done and exits
\* with status 0.
C5_UndersizedIsOnlyAWarning ==
    (/\ Ended
     /\ ChecksSize(script)
     /\ <<"getsize", "ok">> \in Range(trace) \/ <<"getsize", "fail">> \in Range(trace)
     /\ file_mb < MinSizeMB)
    => /\ <<"warning", "size">> \in Range(out)
       /\ term = "Done"
       /\ exitCode = 0
       /\ script = "export_depth_model"
             => \E r \in {"ok", "fail"} : <<"smoke", r>> \in Range(trace)

\* C6: a failure of the validation stage is only a warning: the run goes on to
\* the smoke test and ends Done with exit status 0.
C6_ValidatorFailureIsAWarning ==
    <<"validate", "fail">> \in Range(trace)
    => /\ <<"warning", "validate">> \in Range(out)
       /\ pc \in {"smoke", "finish", "exited"}
       /\ pc # "smoke" => \E r \in {"ok", "fail"} : <<"smoke", r>> \in Range(trace)
       /\ Ended => term = "Done" /\ exitCode = 0

C6_Witness ==
    /\ <<"validate", "fail">> \in Range(trace)
    /\ Ended
    /\ exitCode = 0

\* C7: a failure of the smoke test is only a warning: the run ends Done with
\* exit status 0 and the exported file stays in place as written.
C7_SmokeFailureIsAWarning ==
    <<"smoke", "fail">> \in Range(trace)
    => /\ <<"warning", "smoke">> \in Range(out)
       /\ pc \in {"finish", "exited"}
       /\ Ended => term = "Done" /\ exitCode = 0
       /\ fs[output_path(script)] = "complete"

C7_Witness ==
    /\ <<"smoke", "fail">> \in Range(trace)
    /\ Ended
    /\ exitCode = 0

\* C8: once the mobile artifact has been written, the run leaves neither the
\* temp_saved_model directory nor the ONNX file behind, in
\* convert_midas_to_tflite and in convert_onnx_to_tflite.
C8_IntermediatesDeleted ==
    (/\ Ended
     /\ script \in TfliteScripts
     /\ <<"write", "ok">> \in Range(trace))
    => /\ fs[saved_model_path] = "absent"
       /\ fs[ONNX_PATH] = "absent"

\* Stage 1 of the transcoder: parse the ONNX graph, build and write the
\* TensorFlow graph.
Stage1Failed ==
    \E st \in {"onnx_load", "prepare", "export_graph"} :
        <<st, "fail">> \in Range(trace)

\* C9, as claimed: when stage 1 of the transcoder fails the run aborts, no
\* mobile artifact exists at TFLITE_PATH at the end of the run, and the ONNX
\* file is still there.
C9_NoArtifactAfterLoweringFailure ==
    (Ended /\ Stage1Failed)
    => /\ term = "Aborted"
       /\ fs[TFLITE_PATH] = "absent"
       /\ fs[ONNX_PATH] # "absent"

\* C9, amended: when stage 1 of the transcoder fails the run aborts without
\* opening TFLITE_PATH, which holds exactly what it held when the run started
\* (nothing, unless an earlier run left an artifact there), and the ONNX file
\* is still there.
C9_ArtifactUntouchedAfterLoweringFailure ==
    (Ended /\ Stage1Failed)
    => /\ term = "Aborted"
       /\ fs[TFLITE_PATH] = fs0[TFLITE_PATH]
       /\ \A r \in {"ok", "fail"} : <<"open", r>> \notin Range(trace)
       /\ fs[ONNX_PATH] # "absent"

C9_Witness ==
    /\ Ended
    /\ <<"prepare", "fail">> \in Range(trace)
    /\ fs[TFLITE_PATH] = "complete"
    /\ fs[ONNX_PATH] = "complete"

\* C10: after a run that ended with a fatal error, TFLITE_PATH is absent or
\* holds a complete artifact, never a partially written file.
C10_NoPartialArtifact ==
    (Ended /\ term = "Aborted") => fs[TFLITE_PATH] \in {"absent", "complete"}

\* C11: the transcoder only reads a graph file that the exporter of the same
\* run wrote: no run loads an ONNX file left on disk by an earlier run.
C11_TranscoderReadsFreshGraph ==
    (/\ script \in TfliteScripts
     /\ \E r \in {"ok", "fail"} : <<"onnx_load", r>> \in Range(trace))
    => <<"export", "ok">> \in Range(trace)

\* The patch size of the ViT backbone named by the comments on INPUT_SIZE.
PATCH_SIZE == 14

\* C12: a configured input size that is not a multiple of the patch size is
\* rejected as InvalidConfiguration before any export attempt: no
\* torch.onnx.export call is issued with such a size.
C12_InvalidSizeRejected ==
    script \in DepthScripts
    => /\ input_size % PATCH_SIZE # 0 => attempts = <<>>
       /\ \A i \in 1..Len(attempts) : attempts[i][3].shape[3] % PATCH_SIZE = 0

\* C13: the architecture source is cloned exactly when its directory is not
\* there; when the directory is absent and the clone fails the run is fatal:
\* nothing is loaded or exported and the process exits non-zero.
C13_FetchIffAbsentAndFatal ==
    (\E r \in {"ok", "fail"} : <<"clone", r>> \in Range(trace))
    => /\ (<<"cloning", RepoDir(script)>> \in Range(out))
             <=> (fs0[RepoDir(script)] = "absent")
       /\ <<"clone", "fail">> \in Range(trace)
             => /\ Ended
                /\ exitCode # 0
                /\ trace[Len(trace)][1] = "clone"
                /\ model = "none"
                /\ attempts = <<>>

LastStage == trace[Len(trace)][1]

\* Stages of fetching the architecture and loading the checkpoint.
LoadingStages == {"check", "clone", "import", "load"}

\* The export calls and the size check on the exported file.
ExportingStages == {"export", "export_fallback", "getsize"}

\* The transcoder: libraries, stage 1, stage 2, the write and the removal of
\* the ONNX file.
TranscodingStages == {"libs", "onnx_load", "prepare", "export_graph", "compile",
                      "open", "write", "remove"}

\* C14, as claimed: a run is Aborted only out of Loading or Exporting (missing
\* checkpoint, export failure); a run that got past the export ends Done.
C14_AbortOnlyFromLoadingOrExporting ==
    Ended => /\ term \in {"Done", "Aborted"}
             /\ term = "Aborted"
                   => LastStage \in LoadingStages \cup {"export", "export_fallback"}

\* C14, amended: a run is Aborted only out of a loading stage, an exporting
\* stage (the size check of export_depth_model included) or a transcoding
\* stage, never out of validation, smoke test or the removal of
\* temp_saved_model; every other run ends Done at the end of the script; Done
\* and Aborted exclude each other and are final: until the script is started
\* again no stage runs and no file changes.
C14_AbortOnlyFromFatalStages ==
    /\ [](Ended => /\ term \in {"Done", "Aborted"}
                   /\ term = "Aborted"
                         => /\ LastStage \in LoadingStages \cup ExportingStages
                                                 \cup TranscodingStages
                            /\ trace[Len(trace)][2] = "fail"
                   /\ term = "Done" <=> LastStage = "finish")
    /\ [](~Ended => term = "none")
    /\ [][Ended => /\ fs' = fs
                   /\ runs' = runs => UNCHANGED <<term, trace, exitCode, out>>]_vars

C14_Witness ==
    /\ Ended
    /\ term = "Aborted"
    /\ LastStage = "compile"

\* Number of times the run printed that it falls back to the environment switch.
FallbackReports ==
    Cardinality({i \in 1..Len(out) : out[i] = <<"fallback", "dynamo">>})

\* C15: when the first export raises the TypeError naming dynamo and the
\* fallback export succeeds, the run goes on to Done with exit status 0 and
\* reports the fallback exactly once; a run whose first export succeeded
\* never reports a fallback.
C15_FallbackSuccessReachesDone ==
    (script = "export_depth_model" /\ Ended /\ attempts # <<>>)
    => /\ (Len(attempts) = 2 /\ attempts[2][2] = "ok")
             => /\ term = "Done"
                /\ exitCode = 0
                /\ FallbackReports = 1
       /\ attempts[1][2] = "ok" => FallbackReports = 0

\* C16: every export call is made on the model as the loader left it: weights
\* loaded, evaluation mode; when loading fails the failure is reported and no
\* export call is made.
C16_ExportOnLoadedEvalModel ==
    /\ \A i \in 1..Len(attempts) : attempts[i][3].model = "eval"
    /\ (attempts # <<>> \/ pc \in {"export", "export_fallback"})
          => /\ <<"load", "ok">> \in Range(trace)
             /\ model = "eval"
    /\ <<"load", "fail">> \in Range(trace)
          => /\ attempts = <<>>
             /\ model = "none"
             /\ Ended
             /\ term = "Aborted"
             /\ ExceptionReport(script, "LoadError") \in Range(out)

C16_Witness ==
    /\ script = "convert_midas_to_tflite"
    /\ Len(attempts) = 1
    /\ attempts[1][3].model = "eval"
    /\ attempts[1][2] = "ok"

StageOrder(s, withFallback) ==
    CASE s = "export_depth_model" ->
           <<"clone", "import", "check", "load", "export">>
           \o (IF withFallback THEN <<"export_fallback">> ELSE <<>>)
           \o <<"getsize", "validate", "smoke", "finish">>
      [] s \in {"convert_to_onnx", "convert_legacy"} ->
           <<"clone", "import", "check", "load", "export", "getsize", "finish">>
      [] s = "convert_midas_to_tflite" ->
           <<"check", "clone", "import", "load", "export", "getsize", "libs",
             "onnx_load", "prepare", "export_graph", "compile", "open", "write",
             "rmtree", "remove", "finish">>
      [] OTHER ->
           <<"check", "getsize", "libs", "onnx_load", "prepare", "export_graph",
             "compile", "open", "write", "rmtree", "finish">>

StagesRun == [i \in 1..Len(trace) |-> trace[i][1]]

\* C19: within a run the stages execute in the linear order of the script:
\* each stage starts after its predecessor, none is skipped, and none but the
\* export (once, as the fallback) is attempted twice.
C19_StagesInLinearOrder ==
    LET fb  == "export_fallback" \in Range(StagesRun) \/ pc = "export_fallback"
        ord == StageOrder(script, fb)
    IN  /\ Len(trace) <= Len(ord)
        /\ StagesRun = SubSeq(ord, 1, Len(trace))
        /\ ~Ended => Len(trace) < Len(ord) /\ pc = ord[Len(trace) + 1]
        /\ \A i, j \in 1..Len(trace) : i # j => StagesRun[i] # StagesRun[j]

C19_Witness ==
    /\ script = "export_depth_model"
    /\ term = "Done"
    /\ Len(trace) = 10
    /\ <<"smoke", "fail">> \in Range(trace)

\* C20: the two export calls of one run of export_model get the same model,
\* the same dummy input shape (1, 3, INPUT_SIZE, INPUT_SIZE), the same output
\* path, opset, tensor names and fixed axes; only the way the exporter
\* strategy is selected differs.
C20_SameArgumentsOnFallback ==
    (script = "export_depth_model" /\ Len(attempts) = 2)
    => /\ attempts[2][3] = attempts[1][3]
       /\ attempts[2][1] # attempts[1][1]
       /\ attempts[1][3].shape = <<1, 3, input_size, input_size>>
       /\ attempts[1][3].dynamic_axes = "None"

C20_Witness ==
    /\ script = "export_depth_model"
    /\ Len(attempts) = 2
    /\ attempts[2][2] = "TypeError_other"

BothEnded == pc = "exited" /\ peer.pc = "exited"

\* The run met a file that was gone: in a directory it has to itself every
\* file a stage reads was left there by an earlier stage of the same run.
HitMissingFile(o) == <<"error", "FileNotFoundError">> \in Range(o)

\* C18, as claimed: two interleaved runs both end without an error caused by
\* the other run's writes or cleanup, and the file finally at TFLITE_PATH is
\* the complete artifact of the run that wrote last.
C18_LastWriterWins ==
    BothEnded
    => /\ ~HitMissingFile(out)
       /\ ~HitMissingFile(peer.out)
       /\ last_write # 0 => fs[TFLITE_PATH] = "complete" /\ owner = last_write

\* C18, amended: of two interleaved runs either can be aborted by the other's
\* cleanup, and then TFLITE_PATH may hold a truncated or mixed file; when
\* both runs end Done neither met an error caused by the other and
\* TFLITE_PATH holds the complete artifact of the run that wrote last.
C18_LastWriterWinsWhenBothDone ==
    BothEnded
    => /\ term \in {"Done", "Aborted"}
       /\ peer.term \in {"Done", "Aborted"}
       /\ fs[TFLITE_PATH] = "complete" => owner = last_write /\ owner # 0
       /\ (term = "Done" /\ peer.term = "Done")
             => /\ ~HitMissingFile(out)
                /\ ~HitMissingFile(peer.out)
                /\ fs[TFLITE_PATH] = "complete"
                /\ <<"write", "ok">> \in Range(trace)
                /\ <<"write", "ok">> \in Range(peer.trace)
                /\ fs[ONNX_PATH] = "absent"

\* Both runs Done although the second started while the first one's ONNX
\* file was on disk.
C18_Witness ==
    /\ BothEnded
    /\ term = "Done"
    /\ peer.term = "Done"
    /\ fs0[ONNX_PATH] = "complete" \/ peer.fs0[ONNX_PATH] = "complete"
    /\ fs[TFLITE_PATH] = "complete"

\* C21: in convert_midas_to_tflite, in every state of a run after its export
\* succeeded, if the ONNX file is absent then TFLITE_PATH holds a completely
\* written artifact that this run wrote; the ONNX file goes from present to
\* absent only in the os.remove step, after this run's write returned.
C21_OnnxDeletedOnlyAfterArtifactWritten ==
    /\ [](/\ script = "convert_midas_to_tflite"
          /\ <<"export", "ok">> \in Range(trace)
          /\ fs[ONNX_PATH] = "absent"
          => /\ fs[TFLITE_PATH] = "complete"
             /\ <<"write", "ok">> \in Range(trace)
             /\ owner = Me)
    /\ [][/\ script = "convert_midas_to_tflite"
          /\ fs[ONNX_PATH] # "absent"
          /\ fs'[ONNX_PATH] = "absent"
          => /\ pc = "remove"
             /\ <<"write", "ok">> \in Range(trace)
             /\ fs[TFLITE_PATH] = "complete"
             /\ fs'[TFLITE_PATH] = "complete"]_vars

\* The run exported the ONNX file, wrote the artifact and removed the ONNX file.
C21_Witness ==
    /\ script = "convert_midas_to_tflite"
    /\ <<"export", "ok">> \in Range(trace)
    /\ <<"remove", "ok">> \in Range(trace)
    /\ fs[ONNX_PATH] = "absent"
    /\ fs[TFLITE_PATH] = "complete"

\* C22: when every external call eventually returns or raises, every run of
\* every script terminates: a run that has not ended eventually ends, Done or
\* Aborted; it takes no more steps than the script has stages, makes at most
\* two export attempts and enters no stage twice.
C22_EveryRunTerminates ==
    /\ [](/\ Len(trace) <= Len(StageOrder(script, TRUE))
          /\ Len(attempts) <= 2
          /\ \A i, j \in 1..Len(trace) : trace[i][1] = trace[j][1] => i = j
          /\ pc \notin Range(StagesRun))
    /\ \A r \in 1..MaxRuns :
          (runs = r /\ ~Ended)
             ~> (runs = r /\ Ended /\ term \in {"Done", "Aborted"})

\* The longest run there is has ended: every stage of export_depth_model,
\* the fallback export included.
C22_Witness ==
    /\ Ended
    /\ Len(attempts) = 2
    /\ Len(trace) = Len(StageOrder(script, TRUE))

====
